---- MODULE Spec2Model ----
(***************************************************************************)
(* TestTaskRunner (a lock-protected FIFO of closures with an auto-reset    *)
(* "task ready" event, Run / RunOneTask / Quit) and the bindings that the  *)
(* BindTaskRunnerTest and AssociatedBindTaskRunnerTest fixtures drive      *)
(* through four such runners.                                              *)
(***************************************************************************)
EXTENDS Integers, Sequences, FiniteSets, TLC

\* Number of closures the threads of Spec post in one behaviour.
MaxTasks == 3

\* Number of Echo calls and Close() or reset calls a test of SpecBind makes.
MaxOps == 2

CB == "connection_binding_task_runner_"
CP == "connection_ptr_task_runner_"
SB == "sender_binding_task_runner_"
SP == "sender_ptr_task_runner_"

\* The four runners the fixture constructs.
Executors == {CB, CP, SB, SP}

\* The runner the threads of Spec share.
UnitRunner == CB

\* The thread that constructed the runners (thread_id_), and two others.
Main == "main"
Posters == {"poster1", "poster2"}
Threads == {Main} \cup Posters

VARIABLES
  tasks,        \* tasks_        : per runner, the queue of closures
  lock,         \* lock_         : per runner, "free" or the thread holding it
  task_ready,   \* task_ready_   : per runner, whether the event is signalled
  quit_called,  \* quit_called_  : per runner
  pc,           \* where the main thread is
  cur,          \* the runner whose Run / RunOneTask the main thread is in
  task,         \* the closure the main thread took from the queue
  ppc,          \* per thread, where it is inside PostDelayedTask
  outbox,       \* per thread, the PostDelayedTask calls it still has to make
  nextId,       \* history: the next closure identity
  returned,     \* history: per runner, closures whose PostDelayedTask returned
  hb,           \* history: <<a, b>>, the post of a returned before b's began
  ran,          \* history: per runner, the closures run, in order
  quitAt,       \* history: the Quit() made inside the current Run()
  snap,         \* history: what RunOneTask found on entry and at its pop
  phase,        \* "unit", or where the fixture is: "setup", "setup_run", "test"
  state,        \* per endpoint: "Unbound", "Open", "Closing", "Closed"
  pending,      \* per endpoint, the calls whose reply callback is stored
  events,       \* history: per endpoint, its calls, closes and the invocations
                \* of its handler, reply callbacks and error handler
  inHandler,    \* whether the running closure has entered application code
  nextCall,     \* the next call identifier
  style,        \* how the test drives the runners: "Run" with handlers that
                \* quit, or "RunOneTask"
  dcheck_on,    \* the build: whether DCHECK and NOTREACHED are compiled in
  fatal,        \* "none", or the check that ended the process
  refused,      \* history: the closures passed to PostNonNestableDelayedTask
  delayed,      \* history: the closures posted with a non-zero delay
  foreign,      \* history: the Run / RunOneTask / Quit calls made off the owner
                \* thread, and the closures such a call ran
  quitHist      \* history: where the Quit() that set quit_called_ was made, and
                \* what the Run() in progress found on entry

execVars == <<tasks, lock, task_ready, quit_called>>
threadVars == <<pc, cur, task, ppc, outbox>>
histVars == <<nextId, returned, hb, ran, quitAt, snap>>
bindVars == <<phase, state, pending, events, inHandler, nextCall, style>>
errVars == <<dcheck_on, fatal, refused, delayed, foreign>>
vars == <<execVars, threadVars, histVars, bindVars, errVars, quitHist>>

\* No check has ended the process.
Alive == fatal = "none"

NoTask == [id |-> 0, kind |-> "none", msg |-> "none", dest |-> "none", val |-> 0, call |-> 0, path |-> <<>>]
Closure(id) == [NoTask EXCEPT !.id = id, !.kind = "closure"]
NoQuit == [by |-> 0, queue |-> <<>>]
NoSnap == [ran |-> <<>>, quit |-> FALSE, queue |-> <<>>]
NoQuitHist == [by |-> "none", cleared |-> "none"]

Ids(q) == [i \in 1..Len(q) |-> q[i].id]
Range(s) == {s[i] : i \in 1..Len(s)}

----------------------------------------------------------------------------
(* std::queue<base::Closure> tasks_ *)

PushFront(q, t) == <<t>> \o q
Push(q, t) == Append(q, t)

Front(q) == Head(q)

PopTwo(q) == IF Len(q) > 1 THEN Tail(Tail(q)) ELSE Tail(q)
Pop(q) == Tail(q)

----------------------------------------------------------------------------
(* PostDelayedTask, one call being the head of the caller's outbox *)

\* The calls that begin now are ordered after every call that has returned.
Begins(e, t, done) == hb' = IF t.id = 0 THEN hb ELSE hb \cup {<<a, t.id>> : a \in done}

Submit(th, e, t) ==
  /\ outbox[th] = <<>>
  /\ outbox' = [outbox EXCEPT ![th] = <<[e |-> e, t |-> t]>>]
  /\ Begins(e, t, returned[e])

PostAcquire(th) ==
  /\ Alive
  /\ UNCHANGED <<errVars, quitHist>>
  /\ ppc[th] = "idle"
  /\ outbox[th] # <<>>
  /\ th = Main => pc \in {"idle", "run_body", "one_body"}
  /\ LET e == Head(outbox[th]).e
     IN /\ lock[e] = "free"
        /\ lock' = [lock EXCEPT ![e] = th]
  /\ ppc' = [ppc EXCEPT ![th] = "locked"]
  /\ UNCHANGED <<tasks, task_ready, quit_called, pc, cur, task, outbox, histVars, bindVars>>

PostPush(th) ==
  /\ Alive
  /\ UNCHANGED <<errVars, quitHist>>
  /\ ppc[th] = "locked"
  /\ LET e == Head(outbox[th]).e
         t == Head(outbox[th]).t
     IN /\ tasks' = [tasks EXCEPT ![e] = Push(@, t)]
        /\ lock' = [lock EXCEPT ![e] = "free"]
  /\ ppc' = [ppc EXCEPT ![th] = "pushed"]
  /\ UNCHANGED <<task_ready, quit_called, pc, cur, task, outbox, histVars, bindVars>>

\* (mutant of PostSignal: the post returns without signalling task_ready_)
PostNoSignal(th) ==
  /\ Alive
  /\ UNCHANGED <<errVars, quitHist>>
  /\ ppc[th] = "pushed"
  /\ LET e == Head(outbox[th]).e
         t == Head(outbox[th]).t
         rest == Tail(outbox[th])
         done == [returned EXCEPT ![e] = @ \cup {t.id}]
     IN /\ returned' = IF t.id = 0 THEN returned ELSE done
        /\ outbox' = [outbox EXCEPT ![th] = rest]
        /\ IF rest = <<>>
             THEN UNCHANGED hb
             ELSE Begins(Head(rest).e, Head(rest).t, done[Head(rest).e])
  /\ ppc' = [ppc EXCEPT ![th] = "idle"]
  /\ UNCHANGED <<tasks, lock, task_ready, quit_called, pc, cur, task, nextId, ran, quitAt, snap, bindVars>>

PostSignal(th) ==
  /\ Alive
  /\ UNCHANGED <<errVars, quitHist>>
  /\ ppc[th] = "pushed"
  /\ LET e == Head(outbox[th]).e
         t == Head(outbox[th]).t
         rest == Tail(outbox[th])
         done == [returned EXCEPT ![e] = @ \cup {t.id}]
     IN /\ task_ready' = [task_ready EXCEPT ![e] = TRUE]
        /\ returned' = IF t.id = 0 THEN returned ELSE done
        /\ outbox' = [outbox EXCEPT ![th] = rest]
        /\ IF rest = <<>>
             THEN UNCHANGED hb
             ELSE Begins(Head(rest).e, Head(rest).t, done[Head(rest).e])
  /\ ppc' = [ppc EXCEPT ![th] = "idle"]
  /\ UNCHANGED <<tasks, lock, quit_called, pc, cur, task, nextId, ran, quitAt, snap, bindVars>>

PostDelayedTask(th) == PostAcquire(th) \/ PostPush(th) \/ PostSignal(th)

----------------------------------------------------------------------------
(* Quit *)

Quit(e) ==
  /\ quit_called' = [quit_called EXCEPT ![e] = TRUE]
  /\ quitAt' = IF pc \in {"run_body", "one_body"} /\ cur = e
                 THEN [by |-> task.id, queue |-> Ids(tasks[e])]
                 ELSE quitAt
  /\ quitHist' = IF phase # "unit" THEN quitHist
                  ELSE [quitHist EXCEPT !.by = IF pc = "run_body" THEN "Run" ELSE "outside"]

MainFree == ppc[Main] = "idle" /\ outbox[Main] = <<>>

----------------------------------------------------------------------------
(* The endpoints of the fixture and the runner each is bound to *)
\* The master pair stands for connection_ptr_ / connection_impl_ of
\* AssociatedBindTaskRunnerTest and, once SetUp is over, for ptr_ / impl_ of
\* BindTaskRunnerTest as well: a call on it enters IntegerSenderImpl::Echo.

MP == "connection_ptr_"
MB == "connection_impl_.binding_"
AP == "sender_ptr_"
AB == "sender_impl_.binding_"

Endpoints == {MP, MB, AP, AB}
Ptrs == {MP, AP}
Masters == {MP, MB}

\* (mutant of Runner: the runner given to an associated endpoint is ignored)
RunnerOfMaster(ep) ==
  CASE ep = MP -> CP
    [] ep = MB -> CB
    [] ep = AP -> CP
    [] ep = AB -> CB

Runner(ep) ==
  CASE ep = MP -> CP
    [] ep = MB -> CB
    [] ep = AP -> SP
    [] ep = AB -> SB

Peer(ep) ==
  CASE ep = MP -> MB
    [] ep = MB -> MP
    [] ep = AP -> AB
    [] ep = AB -> AP

MasterOf(ep) == IF ep \in {MP, AP} THEN MP ELSE MB

Associated(m) == IF m = MP THEN <<AP>> ELSE <<AB>>

\* The value the test's n-th Echo passes: 1024, 2048, ...
Value(n) == 1024 * n

----------------------------------------------------------------------------
(* The bindings: what a message does when the closure carrying it runs.   *)
(* An effect is the endpoints' next state and the closures to post.       *)

Msg(kind, msg, dest, val, call, path) ==
  [id |-> 0, kind |-> kind, msg |-> msg, dest |-> dest, val |-> val, call |-> call, path |-> path]

NoEffect ==
  [state |-> state, pending |-> pending, events |-> events, phase |-> phase,
   inHandler |-> "none", posts |-> <<>>]

Event(kind, val, call, on, path) ==
  [kind |-> kind, val |-> val, call |-> call, on |-> on, path |-> path]

\* A message for dest goes to the pipe of dest's master: a closure on the
\* master's runner.
SendTo(eff, m) ==
  [eff EXCEPT !.posts = Append(@, [e |-> Runner(MasterOf(m.dest)), t |-> [m EXCEPT !.kind = "arrive"]])]

\* A message handed on to the runner of the endpoint it is for.
ForwardTo(eff, m) ==
  [eff EXCEPT !.posts = Append(@, [e |-> Runner(m.dest), t |-> [m EXCEPT !.kind = "deliver"]])]

RECURSIVE CloseAll(_, _)
CloseAll(eff, eps) ==
  IF eps = <<>> THEN eff
  ELSE LET a == Head(eps)
           closed == [eff EXCEPT !.state[a] = "Closing", !.pending[a] = {}]
       IN IF eff.state[a] = "Open"
            THEN CloseAll(ForwardTo(closed, Msg("deliver", "error", a, 0, 0, <<>>)), Tail(eps))
            ELSE CloseAll(eff, Tail(eps))

CloseAssociated(eff, ep) == IF ep \in Masters THEN CloseAll(eff, Associated(ep)) ELSE eff

\* Close() on ep, or the reset of the pointer that holds it.
LocalCloseWithMaster(ep) ==
  IF state[ep] # "Open" THEN NoEffect
  ELSE LET m == MasterOf(ep)
           own == ForwardTo([NoEffect EXCEPT !.state[m] = "Closing", !.pending[m] = {}],
                            Msg("deliver", "error", m, 0, 0, <<>>))
           told == SendTo(own, Msg("arrive", "error", Peer(m), 0, 0, <<>>))
       IN CloseAssociated(told, m)

\* (mutants of LocalClose: the pending calls are kept; a closed endpoint is
\* closed again)
LocalCloseKeepsPending(ep) ==
  IF state[ep] # "Open" THEN NoEffect
  ELSE LET own == ForwardTo([NoEffect EXCEPT !.state[ep] = "Closing"],
                            Msg("deliver", "error", ep, 0, 0, <<>>))
           told == SendTo(own, Msg("arrive", "error", Peer(ep), 0, 0, <<>>))
       IN CloseAssociated(told, ep)

LocalCloseAgain(ep) ==
  LET own == ForwardTo([NoEffect EXCEPT !.state[ep] = IF @ = "Closed" THEN @ ELSE "Closing", !.pending[ep] = {}],
                       Msg("deliver", "error", ep, 0, 0, <<>>))
      told == SendTo(own, Msg("arrive", "error", Peer(ep), 0, 0, <<>>))
  IN CloseAssociated(told, ep)

LocalClose(ep) ==
  IF state[ep] # "Open" THEN NoEffect
  ELSE LET own == ForwardTo([NoEffect EXCEPT !.state[ep] = "Closing", !.pending[ep] = {}],
                            Msg("deliver", "error", ep, 0, 0, <<>>))
           told == SendTo(own, Msg("arrive", "error", Peer(ep), 0, 0, <<>>))
       IN CloseAssociated(told, ep)

\* IntegerSenderImpl::Echo: the handler is entered with the value and the
\* callback is run with that value, which sends the reply.
EchoOther(ep, m, on) ==
  LET seen == [NoEffect EXCEPT !.events[ep] = Append(@, Event("request", m.val, m.call, on, m.path)),
                               !.inHandler = "handler"]
  IN SendTo(seen, Msg("arrive", "reply", Peer(ep), m.val + 1, m.call, <<>>))

Echo(ep, m, on) ==
  LET seen == [NoEffect EXCEPT !.events[ep] = Append(@, Event("request", m.val, m.call, on, m.path)),
                               !.inHandler = "handler"]
  IN SendTo(seen, Msg("arrive", "reply", Peer(ep), m.val, m.call, <<>>))

\* IntegerSenderConnectionImpl::GetSender: binds sender_impl_ and notifies.
GetSender ==
  [NoEffect EXCEPT !.state[AB] = "Open", !.phase = "test", !.inHandler = "getsender"]

ReplyCallback(ep, m, on) ==
  [NoEffect EXCEPT !.events[ep] = Append(@, Event("reply", m.val, m.call, on, m.path)),
                   !.pending[ep] = @ \ {m.call},
                   !.inHandler = "handler"]

\* (mutant of ConnectionError: the handler runs but the endpoint stays as it was)
ConnectionErrorKeepsState(ep, m, on) ==
  CloseAssociated([NoEffect EXCEPT !.events[ep] = Append(@, Event("error", 0, 0, on, m.path)),
                                   !.pending[ep] = {},
                                   !.inHandler = "handler"], ep)

ConnectionError(ep, m, on) ==
  CloseAssociated([NoEffect EXCEPT !.events[ep] = Append(@, Event("error", 0, 0, on, m.path)),
                                   !.state[ep] = "Closed",
                                   !.pending[ep] = {},
                                   !.inHandler = "handler"], ep)

Dispatch(ep, m, on) ==
  CASE m.msg = "request" -> IF state[ep] = "Open" THEN Echo(ep, m, on) ELSE NoEffect
    [] m.msg = "getsender" -> IF state[ep] = "Open" THEN GetSender ELSE NoEffect
    [] m.msg = "reply" ->
         IF state[ep] = "Open" /\ m.call \in pending[ep] THEN ReplyCallback(ep, m, on) ELSE NoEffect
    [] m.msg = "error" ->
         IF state[ep] \in {"Open", "Closing"} THEN ConnectionError(ep, m, on) ELSE NoEffect
    [] OTHER -> NoEffect

\* The closure t run on runner e.
ClosureEffect(e, t) ==
  LET m == [t EXCEPT !.path = Append(@, e)]
  IN CASE t.kind = "arrive" ->
            IF state[MasterOf(t.dest)] # "Open" THEN NoEffect
            ELSE IF t.dest \in Masters THEN Dispatch(t.dest, m, e)
            ELSE ForwardTo(NoEffect, m)
       [] t.kind = "deliver" -> Dispatch(t.dest, m, e)
       [] OTHER -> NoEffect

\* The effect takes place; the closures it posts become the
\* PostDelayedTask calls the main thread makes next.
Apply(eff) ==
  /\ state' = eff.state
  /\ pending' = eff.pending
  /\ events' = eff.events
  /\ phase' = eff.phase
  /\ inHandler' = eff.inHandler
  /\ outbox' = [outbox EXCEPT ![Main] = eff.posts]
  /\ UNCHANGED <<nextId, hb>>

----------------------------------------------------------------------------
(* task.Run() *)

InBody == pc \in {"run_body", "one_body"}

TaskRun(e, t) ==
  /\ ran' = IF t.id = 0 THEN ran ELSE [ran EXCEPT ![e] = Append(@, t.id)]
  /\ Apply(ClosureEffect(e, t))
  /\ UNCHANGED <<ppc, returned, nextCall, style>>

----------------------------------------------------------------------------
(* Run *)

\* (mutant of RunEnter: quit_called_ is left as the caller found it)
RunEnterKeepsQuit(e) ==
  /\ Alive
  /\ UNCHANGED errVars
  /\ pc = "idle"
  /\ MainFree
  /\ quitHist' = IF phase # "unit" THEN quitHist
                  ELSE [by |-> quitHist.by, cleared |-> quitHist.by]
  /\ pc' = "run_acquire"
  /\ cur' = e
  /\ quitAt' = NoQuit
  /\ UNCHANGED <<execVars, task, ppc, outbox, nextId, returned, hb, ran, snap, bindVars>>

RunEnter(e) ==
  /\ Alive
  /\ UNCHANGED errVars
  /\ pc = "idle"
  /\ MainFree
  /\ quit_called' = [quit_called EXCEPT ![e] = FALSE]
  /\ quitHist' = IF phase # "unit" THEN quitHist
                  ELSE [by |-> "none", cleared |-> quitHist.by]
  /\ pc' = "run_acquire"
  /\ cur' = e
  /\ quitAt' = NoQuit
  /\ UNCHANGED <<tasks, lock, task_ready, task, ppc, outbox, nextId, returned, hb, ran, snap, bindVars>>

RunAcquire ==
  /\ Alive
  /\ UNCHANGED <<errVars, quitHist>>
  /\ pc \in {"run_acquire", "run_relock"}
  /\ lock[cur] = "free"
  /\ lock' = [lock EXCEPT ![cur] = Main]
  /\ pc' = "run_check"
  /\ UNCHANGED <<tasks, task_ready, quit_called, cur, task, ppc, outbox, histVars, bindVars>>

RunCheckKeepLock ==
  /\ Alive
  /\ UNCHANGED <<errVars, quitHist>>
  /\ pc = "run_check"
  /\ IF tasks[cur] = <<>>
       THEN /\ pc' = "run_wait"
            /\ lock' = [lock EXCEPT ![cur] = "free"]
            /\ UNCHANGED <<tasks, task, ppc, outbox, nextId, returned, hb, ran, bindVars>>
       ELSE /\ task' = Front(tasks[cur])
            /\ tasks' = [tasks EXCEPT ![cur] = Pop(@)]
            /\ pc' = "run_body"
            /\ TaskRun(cur, Front(tasks[cur]))
            /\ UNCHANGED lock
  /\ UNCHANGED <<task_ready, quit_called, cur, quitAt, snap>>

RunCheck ==
  /\ Alive
  /\ UNCHANGED <<errVars, quitHist>>
  /\ pc = "run_check"
  /\ IF tasks[cur] = <<>>
       THEN /\ pc' = "run_wait"
            /\ UNCHANGED <<tasks, task, ppc, outbox, nextId, returned, hb, ran, bindVars>>
       ELSE /\ task' = Front(tasks[cur])
            /\ tasks' = [tasks EXCEPT ![cur] = Pop(@)]
            /\ pc' = "run_body"
            /\ TaskRun(cur, Front(tasks[cur]))
  /\ lock' = [lock EXCEPT ![cur] = "free"]
  /\ UNCHANGED <<task_ready, quit_called, cur, quitAt, snap>>

QuitSeenOnceDrained(e) == quit_called[e] /\ tasks[e] = <<>>
QuitSeen(e) == quit_called[e]

RunTaskDone ==
  /\ Alive
  /\ UNCHANGED <<errVars, quitHist>>
  /\ pc = "run_body"
  /\ MainFree
  /\ inHandler \in {"none", "quit"}
  /\ pc' = IF QuitSeen(cur) THEN "run_return" ELSE "run_relock"
  /\ inHandler' = "none"
  /\ UNCHANGED <<execVars, cur, task, ppc, outbox, histVars, phase, state, pending, events, nextCall, style>>

RunReturn ==
  /\ Alive
  /\ UNCHANGED errVars
  /\ quitHist' = [quitHist EXCEPT !.cleared = "none"]
  /\ pc = "run_return"
  /\ lock[cur] = "free"
  /\ pc' = "idle"
  /\ task' = NoTask
  /\ quitAt' = NoQuit
  /\ UNCHANGED <<execVars, cur, ppc, outbox, nextId, returned, hb, ran, snap, bindVars>>

RunWait ==
  /\ Alive
  /\ UNCHANGED <<errVars, quitHist>>
  /\ pc = "run_wait"
  /\ task_ready[cur]
  /\ task_ready' = [task_ready EXCEPT ![cur] = FALSE]
  /\ pc' = "run_acquire"
  /\ UNCHANGED <<tasks, lock, quit_called, cur, task, ppc, outbox, histVars, bindVars>>

----------------------------------------------------------------------------
(* RunOneTask *)

OneEnter(e) ==
  /\ Alive
  /\ UNCHANGED <<errVars, quitHist>>
  /\ pc = "idle"
  /\ MainFree
  /\ pc' = "one_acquire"
  /\ cur' = e
  /\ snap' = IF phase = "unit" THEN [ran |-> ran[e], quit |-> quit_called[e], queue |-> <<>>] ELSE snap
  /\ quitAt' = NoQuit
  /\ UNCHANGED <<execVars, task, ppc, outbox, nextId, returned, hb, ran, bindVars>>

OneAcquire ==
  /\ Alive
  /\ UNCHANGED <<errVars, quitHist>>
  /\ pc = "one_acquire"
  /\ lock[cur] = "free"
  /\ lock' = [lock EXCEPT ![cur] = Main]
  /\ pc' = "one_check"
  /\ UNCHANGED <<tasks, task_ready, quit_called, cur, task, ppc, outbox, histVars, bindVars>>

\* (mutants of OneCheck: the closure is run but left queued; popped but not run)
OneCheckKeep ==
  /\ Alive
  /\ UNCHANGED <<errVars, quitHist>>
  /\ pc = "one_check"
  /\ IF tasks[cur] = <<>>
       THEN /\ pc' = "one_wait"
            /\ UNCHANGED <<tasks, task, snap, ppc, outbox, nextId, returned, hb, ran, bindVars>>
       ELSE /\ task' = Front(tasks[cur])
            /\ UNCHANGED <<tasks, snap>>
            /\ pc' = "one_body"
            /\ TaskRun(cur, Front(tasks[cur]))
  /\ lock' = [lock EXCEPT ![cur] = "free"]
  /\ UNCHANGED <<task_ready, quit_called, cur, quitAt>>

OneCheckNoRun ==
  /\ Alive
  /\ UNCHANGED <<errVars, quitHist>>
  /\ pc = "one_check"
  /\ IF tasks[cur] = <<>>
       THEN /\ pc' = "one_wait"
            /\ UNCHANGED <<tasks, task>>
       ELSE /\ task' = Front(tasks[cur])
            /\ tasks' = [tasks EXCEPT ![cur] = Pop(@)]
            /\ pc' = "one_body"
  /\ lock' = [lock EXCEPT ![cur] = "free"]
  /\ UNCHANGED <<task_ready, quit_called, cur, quitAt, snap, ppc, outbox, nextId, returned, hb, ran, bindVars>>

OneCheck ==
  /\ Alive
  /\ UNCHANGED <<errVars, quitHist>>
  /\ pc = "one_check"
  /\ IF tasks[cur] = <<>>
       THEN /\ pc' = "one_wait"
            /\ UNCHANGED <<tasks, task, snap, ppc, outbox, nextId, returned, hb, ran, bindVars>>
       ELSE /\ task' = Front(tasks[cur])
            /\ tasks' = [tasks EXCEPT ![cur] = Pop(@)]
            /\ snap' = IF phase = "unit" THEN [snap EXCEPT !.queue = Ids(tasks[cur])] ELSE snap
            /\ pc' = "one_body"
            /\ TaskRun(cur, Front(tasks[cur]))
  /\ lock' = [lock EXCEPT ![cur] = "free"]
  /\ UNCHANGED <<task_ready, quit_called, cur, quitAt>>

OneTaskDone ==
  /\ Alive
  /\ UNCHANGED <<errVars, quitHist>>
  /\ pc = "one_body"
  /\ MainFree
  /\ inHandler # "getsender"
  /\ pc' = "one_return"
  /\ inHandler' = "none"
  /\ UNCHANGED <<execVars, cur, task, ppc, outbox, histVars, phase, state, pending, events, nextCall, style>>

OneReturn ==
  /\ Alive
  /\ UNCHANGED <<errVars, quitHist>>
  /\ pc = "one_return"
  /\ lock[cur] = "free"
  /\ pc' = "idle"
  /\ task' = NoTask
  /\ snap' = NoSnap
  /\ quitAt' = NoQuit
  /\ UNCHANGED <<execVars, cur, ppc, outbox, nextId, returned, hb, ran, bindVars>>

OneWait ==
  /\ Alive
  /\ UNCHANGED <<errVars, quitHist>>
  /\ pc = "one_wait"
  /\ task_ready[cur]
  /\ task_ready' = [task_ready EXCEPT ![cur] = FALSE]
  /\ pc' = "one_acquire"
  /\ UNCHANGED <<tasks, lock, quit_called, cur, task, ppc, outbox, histVars, bindVars>>

----------------------------------------------------------------------------
(* The threads of Spec: closures that post to their runner or quit it,    *)
(* and threads that post from outside.                                    *)

ClosurePost ==
  /\ Alive
  /\ UNCHANGED <<errVars, quitHist>>
  /\ InBody
  /\ task.kind = "closure"
  /\ ppc[Main] = "idle"
  /\ nextId <= MaxTasks
  /\ Submit(Main, cur, Closure(nextId))
  /\ nextId' = nextId + 1
  /\ UNCHANGED <<execVars, pc, cur, task, ppc, returned, ran, quitAt, snap, bindVars>>

ClosureQuit ==
  /\ Alive
  /\ UNCHANGED errVars
  /\ InBody
  /\ task.kind = "closure"
  /\ MainFree
  /\ ~quit_called[cur]
  /\ Quit(cur)
  /\ UNCHANGED <<tasks, lock, task_ready, threadVars, nextId, returned, hb, ran, snap, bindVars>>

PosterPost(p) ==
  /\ Alive
  /\ UNCHANGED <<errVars, quitHist>>
  /\ ppc[p] = "idle"
  /\ nextId <= MaxTasks
  /\ Submit(p, UnitRunner, Closure(nextId))
  /\ nextId' = nextId + 1
  /\ UNCHANGED <<execVars, pc, cur, task, ppc, returned, ran, quitAt, snap, bindVars>>

IdlePost ==
  /\ Alive
  /\ UNCHANGED <<errVars, quitHist>>
  /\ pc = "idle"
  /\ ppc[Main] = "idle"
  /\ nextId <= MaxTasks
  /\ Submit(Main, UnitRunner, Closure(nextId))
  /\ nextId' = nextId + 1
  /\ UNCHANGED <<execVars, pc, cur, task, ppc, returned, ran, quitAt, snap, bindVars>>

IdleQuit ==
  /\ Alive
  /\ UNCHANGED errVars
  /\ pc = "idle"
  /\ MainFree
  /\ ~quit_called[UnitRunner]
  /\ Quit(UnitRunner)
  /\ UNCHANGED <<tasks, lock, task_ready, threadVars, nextId, returned, hb, ran, snap, bindVars>>

----------------------------------------------------------------------------
(* The fixture: SetUp, then what a test body does between runner calls *)

Idle == pc = "idle" /\ MainFree

Of(ep, kind) == {i \in 1..Len(events[ep]) : events[ep][i].kind = kind}

RECURSIVE Sum(_, _)
Sum(f, S) == IF S = {} THEN 0 ELSE LET x == CHOOSE y \in S : TRUE IN f[x] + Sum(f, S \ {x})

Count(kind) == Sum([ep \in Endpoints |-> Cardinality(Of(ep, kind))], Endpoints)

\* The calls and closes the test has made so far.
Ops == Count("call") + Count("close") + Count("reclose")

\* connection_ptr_->GetSender(GetProxy(&sender_ptr_, ..., sender_ptr_task_runner_))
SetUpGetSender ==
  /\ Alive
  /\ UNCHANGED <<errVars, quitHist>>
  /\ phase = "setup"
  /\ Idle
  /\ Apply(SendTo([NoEffect EXCEPT !.state[AP] = "Open", !.phase = "setup_run"],
                  Msg("arrive", "getsender", MB, 0, 0, <<>>)))
  /\ UNCHANGED <<execVars, pc, cur, task, ppc, returned, ran, quitAt, snap, nextCall, style>>

\* connection_binding_task_runner_->Run()
SetUpRun == phase = "setup_run" /\ RunEnter(CB)

\* [this]() { connection_binding_task_runner_->Quit(); }
GetSenderNotify ==
  /\ Alive
  /\ UNCHANGED errVars
  /\ InBody
  /\ inHandler = "getsender"
  /\ Quit(cur)
  /\ inHandler' = "quit"
  /\ UNCHANGED <<tasks, lock, task_ready, threadVars, nextId, returned, hb, ran, snap,
                 phase, state, pending, events, nextCall, style>>

\* The handlers of the tests that use Run() quit the runner they run on.
HandlerQuit ==
  /\ Alive
  /\ UNCHANGED errVars
  /\ pc = "run_body"
  /\ inHandler = "handler"
  /\ Quit(cur)
  /\ inHandler' = "quit"
  /\ UNCHANGED <<tasks, lock, task_ready, threadVars, nextId, returned, hb, ran, snap,
                 phase, state, pending, events, nextCall, style>>

\* ptr->Echo(v, callback)
TestCall(ep) ==
  /\ Alive
  /\ UNCHANGED <<errVars, quitHist>>
  /\ phase = "test"
  /\ Idle
  /\ state[ep] = "Open"
  /\ Ops < MaxOps
  /\ Apply(SendTo([NoEffect EXCEPT !.pending[ep] = @ \cup {nextCall},
                                   !.events[ep] = Append(@, Event("call", Value(nextCall), nextCall, "none", <<>>))],
                  Msg("arrive", "request", Peer(ep), Value(nextCall), nextCall, <<>>)))
  /\ nextCall' = nextCall + 1
  /\ UNCHANGED <<execVars, pc, cur, task, ppc, returned, ran, quitAt, snap, style>>

\* (mutant of TestCallClosed: the call is sent as on an open endpoint)
TestCallClosedSends(ep) ==
  /\ Alive
  /\ phase = "test"
  /\ Idle
  /\ state[ep] \in {"Closing", "Closed"}
  /\ Ops < MaxOps
  /\ Apply(SendTo([NoEffect EXCEPT !.pending[ep] = @ \cup {nextCall}],
                  Msg("arrive", "request", Peer(ep), Value(nextCall), nextCall, <<>>)))
  /\ nextCall' = nextCall + 1
  /\ fatal' = "Call on a closed Endpoint"
  /\ UNCHANGED <<execVars, pc, cur, task, ppc, returned, ran, quitAt, snap, style, dcheck_on, refused, delayed, foreign, quitHist>>

\* ptr->Echo(v, callback) on a pointer that was closed: the process ends.
TestCallClosed(ep) ==
  /\ Alive
  /\ phase = "test"
  /\ Idle
  /\ state[ep] \in {"Closing", "Closed"}
  /\ Ops < MaxOps
  /\ fatal' = "Call on a closed Endpoint"
  /\ UNCHANGED <<execVars, threadVars, histVars, bindVars, dcheck_on, refused, delayed, foreign, quitHist>>

\* ptr.reset() or binding()->Close(), on an endpoint that is open or not
TestClose(ep) ==
  /\ Alive
  /\ UNCHANGED <<errVars, quitHist>>
  /\ phase = "test"
  /\ Idle
  /\ Ops < MaxOps
  /\ Apply([LocalClose(ep) EXCEPT
              !.events[ep] = Append(@, Event(IF state[ep] = "Open" THEN "close" ELSE "reclose",
                                             0, 0, "none", <<>>))])
  /\ UNCHANGED <<execVars, pc, cur, task, ppc, returned, ran, quitAt, snap, nextCall, style>>

\* runner->Run() and runner->RunOneTask() of a test body.  On an empty queue
\* the test's only thread would wait for ever, so tests call them when a
\* closure is queued.
TestRun(e) == phase = "test" /\ style = "Run" /\ tasks[e] # <<>> /\ RunEnter(e)

TestRunOneTask(e) == phase = "test" /\ style = "RunOneTask" /\ tasks[e] # <<>> /\ OneEnter(e)

Constructed ==
  /\ tasks = [e \in Executors |-> <<>>]
  /\ lock = [e \in Executors |-> "free"]
  /\ task_ready = [e \in Executors |-> FALSE]
  /\ quit_called = [e \in Executors |-> FALSE]
  /\ pc = "idle"
  /\ cur = UnitRunner
  /\ task = NoTask
  /\ ppc = [th \in Threads |-> "idle"]
  /\ outbox = [th \in Threads |-> <<>>]
  /\ nextId = 1
  /\ returned = [e \in Executors |-> {}]
  /\ hb = {}
  /\ ran = [e \in Executors |-> <<>>]
  /\ quitAt = NoQuit
  /\ snap = NoSnap
  /\ state = [ep \in Endpoints |-> IF ep \in Masters THEN "Open" ELSE "Unbound"]
  /\ pending = [ep \in Endpoints |-> {}]
  /\ events = [ep \in Endpoints |-> <<>>]
  /\ inHandler = "none"
  /\ nextCall = 1
  /\ fatal = "none"
  /\ refused = {}
  /\ delayed = {}
  /\ foreign = {}
  /\ quitHist = NoQuitHist

Init == Constructed /\ phase = "unit" /\ style = "none" /\ dcheck_on = TRUE

Next ==
  \/ \E th \in Threads : PostDelayedTask(th)
  \/ \E p \in Posters : PosterPost(p)
  \/ IdlePost
  \/ IdleQuit
  \/ RunEnter(UnitRunner)
  \/ RunAcquire
  \/ RunCheck
  \/ RunTaskDone
  \/ RunReturn
  \/ RunWait
  \/ OneEnter(UnitRunner)
  \/ OneAcquire
  \/ OneCheck
  \/ OneReturn
  \/ OneWait
  \/ OneTaskDone
  \/ ClosurePost
  \/ ClosureQuit

Spec == Init /\ [][Next]_vars

----------------------------------------------------------------------------
(* Calls the fixture never makes: the delayed variants of posting, and Run, *)
(* RunOneTask and Quit from a thread that did not construct the runner.     *)

\* The thread, other than the owner, that makes them: one such call in a
\* behaviour.
Stranger == "poster2"

CanCall(th) ==
  /\ Alive
  /\ ppc[th] = "idle"
  /\ outbox[th] = <<>>
  /\ th = Main => pc \in {"idle", "run_body", "one_body"}

\* (mutant of PostNonNestableDelayedTask: it posts the closure as PostDelayedTask does)
PostNonNestablePosts(th) ==
  /\ CanCall(th)
  /\ nextId <= MaxTasks
  /\ nextId' = nextId + 1
  /\ refused' = refused \cup {nextId}
  /\ tasks' = [tasks EXCEPT ![UnitRunner] = Push(@, Closure(nextId))]
  /\ task_ready' = [task_ready EXCEPT ![UnitRunner] = TRUE]
  /\ returned' = [returned EXCEPT ![UnitRunner] = @ \cup {nextId}]
  /\ UNCHANGED <<lock, quit_called, threadVars, hb, ran, quitAt, snap, bindVars, dcheck_on, fatal, delayed, foreign, quitHist>>

\* NOTREACHED(); return false;
PostNonNestableDelayedTask(th) ==
  /\ CanCall(th)
  /\ nextId <= MaxTasks
  /\ nextId' = nextId + 1
  /\ refused' = refused \cup {nextId}
  /\ fatal' = IF dcheck_on THEN "NOTREACHED" ELSE fatal
  /\ UNCHANGED <<execVars, threadVars, returned, hb, ran, quitAt, snap, bindVars, dcheck_on, delayed, foreign, quitHist>>

\* (mutant of PostWithDelay: the closure is held back for its delay instead
\* of being pushed)
PostWithDelayHeld(th) ==
  /\ CanCall(th)
  /\ nextId <= MaxTasks
  /\ nextId' = nextId + 1
  /\ delayed' = delayed \cup {nextId}
  /\ returned' = [returned EXCEPT ![UnitRunner] = @ \cup {nextId}]
  /\ UNCHANGED <<execVars, threadVars, hb, ran, quitAt, snap, bindVars, dcheck_on, fatal, refused, foreign, quitHist>>

\* PostDelayedTask(from_here, task, delay) with a delay that is not zero:
\* the delay is not read.
PostWithDelay(th) ==
  /\ CanCall(th)
  /\ nextId <= MaxTasks
  /\ Submit(th, UnitRunner, Closure(nextId))
  /\ nextId' = nextId + 1
  /\ delayed' = delayed \cup {nextId}
  /\ UNCHANGED <<execVars, pc, cur, task, ppc, returned, ran, quitAt, snap, bindVars, dcheck_on, fatal, refused, foreign, quitHist>>

\* DCHECK(RunsTasksOnCurrentThread()) evaluated on thread th.
DCheckOwner(th) == IF dcheck_on /\ th # Main THEN "DCHECK" ELSE fatal

Called(op) == [op |-> op, id |-> 0]

\* (mutant of StrangerQuit: Quit() makes no check of the calling thread)
StrangerQuitUnchecked ==
  /\ CanCall(Stranger)
  /\ foreign = {}
  /\ foreign' = foreign \cup {Called("Quit")}
  /\ quit_called' = [quit_called EXCEPT ![UnitRunner] = TRUE]
  /\ UNCHANGED <<tasks, lock, task_ready, threadVars, histVars, bindVars, dcheck_on, fatal, refused, delayed, quitHist>>

\* Quit() called on the stranger's thread.
StrangerQuit ==
  /\ CanCall(Stranger)
  /\ foreign = {}
  /\ foreign' = foreign \cup {Called("Quit")}
  /\ fatal' = DCheckOwner(Stranger)
  /\ quit_called' = IF dcheck_on THEN quit_called ELSE [quit_called EXCEPT ![UnitRunner] = TRUE]
  /\ UNCHANGED <<tasks, lock, task_ready, threadVars, histVars, bindVars, dcheck_on, refused, delayed, quitHist>>

\* Run() called on the stranger's thread: past the DCHECK it clears
\* quit_called_ and takes closures as StrangerTakes does.
StrangerRun ==
  /\ CanCall(Stranger)
  /\ foreign = {}
  /\ foreign' = foreign \cup {Called("Run")}
  /\ fatal' = DCheckOwner(Stranger)
  /\ quit_called' = IF dcheck_on THEN quit_called ELSE [quit_called EXCEPT ![UnitRunner] = FALSE]
  /\ UNCHANGED <<tasks, lock, task_ready, threadVars, histVars, bindVars, dcheck_on, refused, delayed, quitHist>>

\* RunOneTask() called on the stranger's thread.
StrangerRunOneTask ==
  /\ CanCall(Stranger)
  /\ foreign = {}
  /\ foreign' = foreign \cup {Called("RunOneTask")}
  /\ fatal' = DCheckOwner(Stranger)
  /\ UNCHANGED <<execVars, threadVars, histVars, bindVars, dcheck_on, refused, delayed, quitHist>>

\* The stranger, inside the Run() or RunOneTask() it was let into, locks,
\* pops the front closure, unlocks and runs it (taken here as one step).
StrangerTakes ==
  /\ Alive
  /\ foreign \cap {Called("Run"), Called("RunOneTask")} # {}
  /\ \A f \in foreign : f.id = 0
  /\ lock[UnitRunner] = "free"
  /\ tasks[UnitRunner] # <<>>
  /\ LET t == Front(tasks[UnitRunner])
     IN /\ tasks' = [tasks EXCEPT ![UnitRunner] = Pop(@)]
        /\ ran' = [ran EXCEPT ![UnitRunner] = Append(@, t.id)]
        /\ foreign' = foreign \cup {[op |-> "task", id |-> t.id]}
  /\ UNCHANGED <<lock, task_ready, quit_called, threadVars, nextId, returned, hb, quitAt, snap, bindVars,
                 dcheck_on, fatal, refused, delayed, quitHist>>

InitMisuse == Constructed /\ phase = "unit" /\ style = "none" /\ dcheck_on \in BOOLEAN

NextMisuse ==
  \/ PostDelayedTask("poster1")
  \/ \E th \in {Main, "poster1"} : PostNonNestableDelayedTask(th)
  \/ PostWithDelay("poster1")
  \/ StrangerQuit
  \/ StrangerRun
  \/ StrangerRunOneTask
  \/ StrangerTakes
  \/ RunEnter(UnitRunner)
  \/ RunAcquire
  \/ RunCheck
  \/ RunTaskDone
  \/ RunReturn
  \/ RunWait
  \/ OneEnter(UnitRunner)
  \/ OneAcquire
  \/ OneCheck
  \/ OneReturn
  \/ OneWait
  \/ OneTaskDone
  \/ ClosureQuit

SpecMisuse == InitMisuse /\ [][NextMisuse]_vars

\* Posts with and without a delay, from the owner thread and from another,
\* while the owner calls Run() and RunOneTask().
NextDelay ==
  \/ \E th \in {Main, "poster1"} : PostDelayedTask(th)
  \/ \E th \in {Main, "poster1"} : PostWithDelay(th)
  \/ PosterPost("poster1")
  \/ RunEnter(UnitRunner)
  \/ RunAcquire
  \/ RunCheck
  \/ RunTaskDone
  \/ RunReturn
  \/ RunWait
  \/ OneEnter(UnitRunner)
  \/ OneAcquire
  \/ OneCheck
  \/ OneReturn
  \/ OneWait
  \/ OneTaskDone
  \/ ClosureQuit

SpecDelay == Init /\ [][NextDelay]_vars

\* Each thread that can take a step inside PostDelayedTask, Run or
\* RunOneTask eventually takes it; whether a thread posts, quits or calls
\* Run / RunOneTask at all is up to the program.
Fairness ==
  /\ \A th \in Threads : WF_vars(PostDelayedTask(th))
  /\ WF_vars(RunAcquire) /\ WF_vars(RunCheck) /\ WF_vars(RunTaskDone)
  /\ WF_vars(RunReturn) /\ WF_vars(RunWait)
  /\ WF_vars(OneAcquire) /\ WF_vars(OneCheck) /\ WF_vars(OneTaskDone)
  /\ WF_vars(OneReturn) /\ WF_vars(OneWait)

\* The owner thread and one other thread that posts; the owner posts and
\* quits only from the closures it runs.
NextLive ==
  \/ \E th \in {Main, "poster1"} : PostDelayedTask(th)
  \/ PosterPost("poster1")
  \/ RunEnter(UnitRunner)
  \/ RunAcquire
  \/ RunCheck
  \/ RunTaskDone
  \/ RunReturn
  \/ RunWait
  \/ OneEnter(UnitRunner)
  \/ OneAcquire
  \/ OneCheck
  \/ OneReturn
  \/ OneWait
  \/ OneTaskDone
  \/ ClosurePost
  \/ ClosureQuit

SpecLive == Init /\ [][NextLive]_vars /\ Fairness

InitBind == Constructed /\ phase = "setup" /\ style \in {"Run", "RunOneTask"} /\ dcheck_on = TRUE

NextBind ==
  \/ SetUpGetSender
  \/ SetUpRun
  \/ GetSenderNotify
  \/ HandlerQuit
  \/ \E ep \in Ptrs : TestCall(ep)
  \/ \E ep \in Ptrs : TestCallClosed(ep)
  \/ \E ep \in Endpoints : TestClose(ep)
  \/ \E e \in Executors : TestRun(e)
  \/ \E e \in Executors : TestRunOneTask(e)
  \/ PostDelayedTask(Main)
  \/ RunAcquire
  \/ RunCheck
  \/ RunTaskDone
  \/ RunReturn
  \/ RunWait
  \/ OneAcquire
  \/ OneCheck
  \/ OneTaskDone
  \/ OneReturn

SpecBind == InitBind /\ [][NextBind]_vars

----------------------------------------------------------------------------
(* Properties of TestTaskRunner, checked under Spec *)

IsPrefix(p, q) == Len(p) <= Len(q) /\ \A i \in 1..Len(p) : p[i] = q[i]

\* C1: if the post of closure a returned before the post of closure b to the
\* same runner began, then whenever b has been run, a was run before it,
\* whichever threads posted them (a running closure included).
C1_Fifo ==
  \A e \in Executors : \A pr \in hb : \A j \in 1..Len(ran[e]) :
    ran[e][j] = pr[2] => \E i \in 1..(j - 1) : ran[e][i] = pr[1]

C1_Witness ==
  /\ Len(ran[UnitRunner]) = MaxTasks
  /\ \E pr \in hb : {pr[1], pr[2]} \subseteq Range(ran[UnitRunner])
  /\ \E i, j \in 1..Len(ran[UnitRunner]) : i < j /\ ran[UnitRunner][i] > ran[UnitRunner][j]

\* C2 as stated: when Run() returns, every closure that was queued when
\* Quit() was called has been run.
C2_DrainsBeforeReturn ==
  pc = "run_return" => Range(quitAt.queue) \subseteq Range(ran[cur])

\* C2 as amended: Run() returns only after a closure it ran called Quit(),
\* and right after that closure: it is the last one run, and what was queued
\* when it called Quit() is still queued, in order, not run.
C2_ReturnsAfterQuittingTask ==
  pc = "run_return" =>
    /\ quit_called[cur]
    /\ quitAt.by # 0
    /\ ran[cur] # <<>>
    /\ ran[cur][Len(ran[cur])] = quitAt.by
    /\ IsPrefix(quitAt.queue, Ids(tasks[cur]))
    /\ Range(quitAt.queue) \cap Range(ran[cur]) = {}

C2_Witness == pc = "run_return" /\ quitAt.queue # <<>>

\* C3: when RunOneTask() returns it has run exactly one closure, the one at
\* the front of the queue; the closures behind it are still queued in their
\* order, not run; quit_called_ is as on entry unless that closure quit.
C3_RunOneTaskIsolation ==
  pc = "one_return" =>
    /\ snap.queue # <<>>
    /\ ran[cur] = Append(snap.ran, Head(snap.queue))
    /\ IsPrefix(Tail(snap.queue), Ids(tasks[cur]))
    /\ quit_called[cur] = (snap.quit \/ quitAt.by = Head(snap.queue))

C3_Witness ==
  /\ pc = "one_return"
  /\ Len(snap.queue) >= 2
  /\ snap.ran # <<>>

\* C10: the main thread holds lock_ only across its test of the queue and
\* its pop (or its own push), never while idle, waiting or running a
\* closure; every other holder is about to push; so no post waits on the
\* owner.  The push appends at the tail, the post then signals task_ready_
\* and returns.
LockOnlyAcrossQueueAccess ==
  \A e \in Executors :
    /\ lock[e] = Main =>
         \/ pc \in {"run_check", "one_check"} /\ cur = e
         \/ ppc[Main] = "locked" /\ Head(outbox[Main]).e = e
    /\ \A p \in Posters : lock[e] = p => ppc[p] = "locked" /\ Head(outbox[p]).e = e

PostAppendsAndSignals ==
  \A th \in Threads :
    /\ (ppc[th] = "locked" /\ ppc'[th] = "pushed") =>
         LET e == Head(outbox[th]).e
         IN /\ tasks'[e] = Append(tasks[e], Head(outbox[th]).t)
            /\ lock'[e] = "free"
    /\ (ppc[th] = "pushed" /\ ppc'[th] = "idle") =>
         LET e == Head(outbox[th]).e
         IN /\ task_ready'[e]
            /\ Head(outbox[th]).t.id \in returned'[e]

C10_PostNeverBlocks == []LockOnlyAcrossQueueAccess /\ [][PostAppendsAndSignals]_vars

C10_Witness ==
  /\ pc = "run_body"
  /\ ppc[Main] = "pushed"
  /\ tasks[cur] # <<>>
  /\ \E p \in Posters : ppc[p] = "locked"

\* C11 as stated: whenever the owner thread is running a closure, waiting
\* for one, or back from Run() / RunOneTask(), lock_ is free.
C11_LockFree ==
  pc \in {"run_body", "one_body", "run_wait", "one_wait", "idle"} => lock[cur] = "free"

\* C11 as amended: Run() and RunOneTask() do not hold lock_ while the owner
\* thread is running a closure, waiting for one, or back from them; lock_ is
\* then free or held by a PostDelayedTask call that is about to push (on
\* another thread, or made by the running closure itself), so a post made by
\* the running closure never waits on a lock its own thread holds.
C11_LockNotHeldAcrossTask ==
  /\ pc \in {"run_body", "one_body", "run_wait", "one_wait", "idle"} =>
       \A e \in Executors :
         /\ lock[e] = Main => ppc[Main] = "locked" /\ outbox[Main] # <<>> /\ Head(outbox[Main]).e = e
         /\ \A p \in Posters : lock[e] = p => ppc[p] = "locked"
  /\ (pc \in {"run_body", "one_body"} /\ ppc[Main] = "idle" /\ outbox[Main] # <<>>) =>
       lock[Head(outbox[Main]).e] # Main

C11_Witness ==
  /\ pc = "run_body"
  /\ task.kind = "closure"
  /\ ppc[Main] = "idle" /\ outbox[Main] # <<>> /\ Head(outbox[Main]).e = cur
  /\ \E p \in Posters : lock[cur] = p

InRun == pc \in {"run_acquire", "run_relock", "run_check", "run_wait", "run_body", "run_return"}
InOne == pc \in {"one_acquire", "one_check", "one_wait", "one_body"}
Posted(id) ==
  \/ \E i \in 1..Len(tasks[UnitRunner]) : tasks[UnitRunner][i].id = id
  \/ \E th \in Threads : outbox[th] # <<>> /\ Head(outbox[th]).t.id = id
Ran(id) == \E i \in 1..Len(ran[UnitRunner]) : ran[UnitRunner][i] = id

\* While the queue is empty the owner inside Run() / RunOneTask() runs no
\* closure and does not return, and it leaves its wait only on a signal.
BlockedWhileEmpty ==
  /\ (pc \in {"run_acquire", "run_relock", "run_check", "run_wait", "one_acquire", "one_check", "one_wait"}
        /\ tasks[cur] = <<>>) =>
       /\ pc' \notin {"run_body", "one_body", "run_return", "one_return", "idle"}
       /\ ran' = ran
  /\ (pc \in {"run_wait", "one_wait"} /\ pc' # pc) => task_ready[cur]

\* C12 as stated: blocked while the queue is empty, and every closure posted
\* while the owner is in Run() is run unless Run() is quit, and every
\* closure posted while the owner is in RunOneTask() is run.
C12_EveryPostedTaskRuns ==
  /\ [][BlockedWhileEmpty]_vars
  /\ \A id \in 1..MaxTasks : (InRun /\ Posted(id)) ~> (Ran(id) \/ quit_called[UnitRunner])
  /\ \A id \in 1..MaxTasks : (InOne /\ Posted(id)) ~> Ran(id)

\* C12 as amended: blocked while the queue is empty; every closure posted
\* while the owner is in Run() is run unless Run() is quit; a RunOneTask()
\* during which a closure is posted or queued runs one closure and returns
\* (the closures posted behind it stay queued).
C12_BlocksAndWakes ==
  /\ [][BlockedWhileEmpty]_vars
  /\ \A id \in 1..MaxTasks : (InRun /\ Posted(id)) ~> (Ran(id) \/ quit_called[UnitRunner])
  /\ (InOne /\ \E id \in 1..MaxTasks : Posted(id) /\ ~Ran(id)) ~> (pc = "one_return")

\* The post raced with the owner's test of the queue: the owner found it
\* empty and is about to wait, the closure is queued and the event signalled.
C12_Witness ==
  /\ pc \in {"run_wait", "one_wait"}
  /\ tasks[cur] # <<>>
  /\ task_ready[cur]
  /\ ran[cur] = <<>>

\* What a runner has been given so far: the closures it ran, in the order
\* it ran them, followed by the closures still in tasks_.
Ledger(e) == ran[e] \o Ids(tasks[e])

NoDuplicates(s) == \A i, j \in 1..Len(s) : s[i] = s[j] => i = j

\* Every closure whose post returned is either run or queued, never both and
\* never twice.
Conserved ==
  \A e \in Executors :
    /\ NoDuplicates(Ledger(e))
    /\ returned[e] \subseteq Range(Ledger(e))
    /\ Range(Ledger(e)) \subseteq 1..(nextId - 1)

\* A step only appends one closure at the end of the ledger (a push), or
\* moves the front of tasks_ to the end of the closures run.
LedgerGrows ==
  \A e \in Executors :
    /\ LET before == Ledger(e)
           after == Ledger(e)'
       IN \/ after = before
          \/ Len(after) = Len(before) + 1 /\ SubSeq(after, 1, Len(before)) = before
    /\ ran'[e] # ran[e] =>
         /\ tasks[e] # <<>>
         /\ ran'[e] = Append(ran[e], Head(tasks[e]).id)
         /\ tasks'[e] = Tail(tasks[e])

\* C21: over any sequence of posts, Run(), RunOneTask() and Quit(), a posted
\* closure is run at most once and is never lost; the closures not run when
\* Run() returns are still queued in the order they were pushed, and the
\* next closure any Run() or RunOneTask() runs is the front of that queue.
C21_NoTaskLostOrDuplicated == []Conserved /\ [][LedgerGrows]_vars

\* Run() has returned on a Quit() leaving closures queued behind the one
\* that quit.
C21_Witness ==
  /\ pc = "run_return"
  /\ ran[cur] # <<>>
  /\ Len(tasks[cur]) >= 2
  /\ returned[cur] = 1..MaxTasks

\* Inside Run(), quit_called_ is set only by the closure being run, and
\* Run() returns only on that closure's Quit().
QuitOnlyFromOwnTask ==
  /\ pc \in {"run_acquire", "run_relock", "run_check", "run_wait"} => ~quit_called[cur]
  /\ (pc = "run_body" /\ quit_called[cur]) => (quitAt.by = task.id /\ quitHist.by = "Run")
  /\ pc = "run_return" =>
       /\ quit_called[cur]
       /\ task.id # 0
       /\ quitAt.by = task.id
       /\ quitHist.by = "Run"

\* Whatever quit_called_ held, it is false once Run() is entered.
RunClearsQuitOnEntry ==
  (pc = "idle" /\ pc' = "run_acquire") => ~quit_called'[cur']

\* C22: Run() clears quit_called_ on entry, so a Quit() made outside any
\* Run(), or the Quit() on which an earlier Run() returned, does not make
\* the next Run() return: it runs closures and returns only after one of
\* the closures it runs calls Quit().
C22_RunClearsQuit == []QuitOnlyFromOwnTask /\ [][RunClearsQuitOnEntry]_vars

\* A Run() entered after an earlier Run() returned on a Quit() is running a
\* closure with quit_called_ clear.
C22_Witness ==
  /\ pc = "run_body"
  /\ quitHist.cleared = "Run"
  /\ ~quit_called[cur]
  /\ Len(ran[cur]) >= 2

\* A Run() entered after a Quit() made outside any Run() has run a closure
\* and is blocked in its wait.
C22_QuitOutsideRun ==
  /\ pc = "run_wait"
  /\ quitHist.cleared = "outside"
  /\ ran[cur] # <<>>
  /\ tasks[cur] = <<>>

InWait == pc \in {"run_wait", "one_wait"}

\* Whenever the owner is in the wait of Run() or RunOneTask() and tasks_ is
\* not empty, task_ready_ is signalled.
SignalledWhenQueued ==
  (InWait /\ tasks[cur] # <<>>) => task_ready[cur]

\* Whenever the owner is in the wait and tasks_ is not empty, task_ready_ is
\* signalled or a PostDelayedTask call that has pushed is about to signal it.
SignalledOrAboutToBe ==
  (InWait /\ tasks[cur] # <<>>) =>
    \/ task_ready[cur]
    \/ \E th \in Posters : ppc[th] = "pushed" /\ Head(outbox[th]).e = cur

\* The owner leaves the wait only on a signal, which it consumes, to test
\* the queue again; finding it empty it dequeues and runs nothing and goes
\* back to the wait.
StaleSignalOnlyRechecks ==
  /\ (InWait /\ pc' # pc) =>
       /\ task_ready[cur] /\ ~task_ready'[cur]
       /\ pc' = (IF pc = "run_wait" THEN "run_acquire" ELSE "one_acquire")
       /\ tasks' = tasks /\ ran' = ran
  /\ (pc \in {"run_check", "one_check"} /\ tasks[cur] = <<>> /\ pc' # pc) =>
       /\ pc' = (IF pc = "run_check" THEN "run_wait" ELSE "one_wait")
       /\ tasks' = tasks /\ ran' = ran

RunOneTaskRanOne ==
  pc = "one_return" => snap.queue # <<>> /\ Len(ran[cur]) = Len(snap.ran) + 1

\* C23 as stated: whenever the owner is in the wait of Run() or
\* RunOneTask() and tasks_ is not empty, task_ready_ is signalled; a signal
\* left while tasks_ is empty only makes the owner test the queue and wait
\* again, and RunOneTask() never returns without having run a closure.
C23_AlwaysSignalled ==
  /\ []SignalledWhenQueued
  /\ []RunOneTaskRanOne
  /\ [][StaleSignalOnlyRechecks]_vars

\* C23 as amended: whenever the owner is in the wait of Run() or
\* RunOneTask() and tasks_ is not empty, task_ready_ is signalled or is
\* about to be by the post that pushed; a signal left while tasks_ is empty
\* only makes the owner test the queue and wait again, and RunOneTask()
\* never returns without having run a closure.
C23_WakeUp ==
  /\ []SignalledOrAboutToBe
  /\ []RunOneTaskRanOne
  /\ [][StaleSignalOnlyRechecks]_vars

\* RunOneTask() is about to wait on an empty queue with a signal left by a
\* post whose closure has already been run.
C23_Witness ==
  /\ pc = "one_wait"
  /\ tasks[cur] = <<>>
  /\ task_ready[cur]
  /\ ran[cur] # <<>>
  /\ \A th \in Threads : ppc[th] = "idle" /\ outbox[th] = <<>>

----------------------------------------------------------------------------
(* The delay argument of PostDelayedTask, checked under SpecDelay *)

Place(s, x) == CHOOSE i \in 1..Len(s) : s[i] = x

\* Closures posted one after the other are run, and meanwhile queued, in
\* that order, whichever of them was posted with a delay.
DelayKeepsPostingOrder ==
  \A pr \in hb :
    LET l == Ledger(UnitRunner)
    IN pr[2] \in Range(l) => (pr[1] \in Range(l) /\ Place(l, pr[1]) < Place(l, pr[2]))

\* A closure whose post has returned is queued or has been run, delayed or
\* not: none is held back.
EligibleOncePosted ==
  returned[UnitRunner] \subseteq Range(Ledger(UnitRunner))

\* The owner's test of a queue that is not empty runs the closure at its
\* front at once, delayed or not.
FrontRunsAtOnce ==
  (pc \in {"run_check", "one_check"} /\ tasks[cur] # <<>> /\ pc' # pc) =>
    /\ pc' = (IF pc = "run_check" THEN "run_body" ELSE "one_body")
    /\ task' = Head(tasks[cur])
    /\ ran'[cur] = Append(ran[cur], Head(tasks[cur]).id)

\* C24: the delay passed to PostDelayedTask has no effect: closures are run
\* in the order they were posted whatever their delays, and a closure can be
\* run as soon as its post has pushed it.
C24_DelayIgnored ==
  /\ []DelayKeepsPostingOrder
  /\ []EligibleOncePosted
  /\ [][FrontRunsAtOnce]_vars

\* Every closure has been run; a delayed closure was run before one posted
\* later without delay, and one posted without delay before a later delayed
\* one.
C24_Witness ==
  LET r == ran[UnitRunner]
  IN /\ Len(r) = MaxTasks
     /\ \E i, j \in 1..Len(r) : i < j /\ r[i] \in delayed /\ r[j] \notin delayed /\ <<r[i], r[j]>> \in hb
     /\ \E i, j \in 1..Len(r) : i < j /\ r[i] \notin delayed /\ r[j] \in delayed /\ <<r[i], r[j]>> \in hb

----------------------------------------------------------------------------
(* Properties of the calls the fixture never makes, checked under SpecMisuse *)

Queued(id) == \E i \in 1..Len(tasks[UnitRunner]) : tasks[UnitRunner][i].id = id
InCall(id) == \E th \in Threads : outbox[th] # <<>> /\ Head(outbox[th]).t.id = id

\* C13 as stated: a closure given to PostNonNestableDelayedTask, or to
\* PostDelayedTask with a delay, ends the process; it is never queued and
\* its post never returns true.
C13_DelayedNeverPosted ==
  \A id \in refused \cup delayed :
    /\ fatal # "none"
    /\ ~Queued(id) /\ ~Ran(id)
    /\ id \notin returned[UnitRunner]

RefusedLeavesRunnerAlone ==
  refused' # refused => tasks' = tasks /\ task_ready' = task_ready /\ returned' = returned

RefusedNeverPosted ==
  /\ \A id \in refused : ~Queued(id) /\ ~Ran(id) /\ ~InCall(id) /\ id \notin returned[UnitRunner]
  /\ refused # {} => fatal = (IF dcheck_on THEN "NOTREACHED" ELSE "none")
  /\ \A id \in delayed :
       /\ fatal = "none" => InCall(id) \/ Queued(id) \/ Ran(id)
       /\ (Queued(id) \/ Ran(id)) /\ ~InCall(id) => id \in returned[UnitRunner]

\* C13 as amended: PostNonNestableDelayedTask never queues the closure,
\* never signals and never returns true; it ends the process where
\* NOTREACHED is compiled in and returns false where it is not.
\* PostDelayedTask does not read its delay: it queues the closure, signals
\* and returns true.
C13_NonNestableRefused == []RefusedNeverPosted /\ [][RefusedLeavesRunnerAlone]_vars

C13_Witness ==
  /\ refused # {}
  /\ fatal = "none"
  /\ \E id \in delayed : Ran(id)

\* C14 as stated: no closure is run off the owner thread, and a Run(),
\* RunOneTask() or Quit() made off the owner thread fails an assertion.
C14_OnlyOwnerRuns ==
  /\ \A f \in foreign : f.op # "task"
  /\ foreign # {} => fatal = "DCHECK"

StrangerChangesNothing ==
  (dcheck_on /\ foreign' # foreign) => tasks' = tasks /\ quit_called' = quit_called /\ ran' = ran

OwnerChecked ==
  /\ dcheck_on => /\ foreign # {} => fatal = "DCHECK"
                  /\ \A f \in foreign : f.op # "task"
  /\ ~dcheck_on => fatal = "none"
  /\ fatal # "none" => foreign # {} \/ refused # {}

\* C14 as amended: where DCHECK is compiled in, Run(), RunOneTask() and
\* Quit() made off the owner thread end the process on the DCHECK, run no
\* closure and change no flag, so every closure is run on the owner thread;
\* where it is not compiled in nothing stops them.  Posting from another
\* thread fails no check.
C14_OwnerCheckedByDCheck == []OwnerChecked /\ [][StrangerChangesNothing]_vars

C14_Witness ==
  /\ dcheck_on
  /\ fatal = "DCHECK"
  /\ Called("Quit") \in foreign
  /\ pc = "run_body"
  /\ ~quit_called[UnitRunner]
  /\ returned[UnitRunner] # {}

----------------------------------------------------------------------------
(* Properties of the bindings on the four runners, checked under SpecBind *)

Messages ==
  UNION {Range(tasks[e]) : e \in Executors} \cup {outbox[Main][i].t : i \in 1..Len(outbox[Main])}

InFlight(msg, call) == \E t \in Messages : t.msg = msg /\ t.call = call
ErrorInFlight(ep) == \E t \in Messages : t.msg = "error" /\ t.dest = ep

CallsOn(ep) == {events[ep][i] : i \in Of(ep, "call")}
Handled(ep, c) == {i \in Of(ep, "request") : events[ep][i].call = c}
Replied(ep, c) == {i \in Of(ep, "reply") : events[ep][i].call = c}
NoClose == \A ep \in Endpoints : Of(ep, "close") = {}
BoundTo == (MP :> CP) @@ (MB :> CB) @@ (AP :> SP) @@ (AB :> SB)

\* C4: the handler of the associated binding is entered only by a closure of
\* the sender binding's runner that a closure of the connection binding's
\* runner posted, at most once per call and with the value sent; and once
\* those two closures have run (the request is queued nowhere any more) it
\* has been entered exactly once.
C4_TwoHopRequest ==
  /\ \A i \in Of(AB, "request") : events[AB][i].path = <<CB, SB>>
  /\ \A c \in CallsOn(AP) :
       /\ Cardinality(Handled(AB, c.call)) <= 1
       /\ \A i \in Handled(AB, c.call) : events[AB][i].val = c.val
       /\ (NoClose /\ ~InFlight("request", c.call)) => Cardinality(Handled(AB, c.call)) = 1

C4_Witness ==
  /\ style = "RunOneTask"
  /\ NoClose
  /\ \E c \in CallsOn(AP) : Handled(AB, c.call) # {}
  /\ pc = "one_return" /\ cur = SB

\* C5: a reply callback is run at most once per call, with the value of its
\* call, only after the peer's handler was entered, and only by the last
\* closure of the reply's path: connection ptr runner, then (for the
\* associated pointer) sender ptr runner; once request and reply are queued
\* nowhere any more, it has been run exactly once.
C5_RoundTrip ==
  \A ep \in Ptrs :
    /\ \A i \in Of(ep, "reply") :
         LET r == events[ep][i]
         IN /\ \E c \in CallsOn(ep) : c.call = r.call /\ c.val = r.val
            /\ r.path = IF ep = AP THEN <<CP, SP>> ELSE <<CP>>
            /\ Handled(IF ep = AP THEN AB ELSE MB, r.call) # {}
    /\ \A c \in CallsOn(ep) :
         /\ Cardinality(Replied(ep, c.call)) <= 1
         /\ (NoClose /\ ~InFlight("request", c.call) /\ ~InFlight("reply", c.call)) =>
              Cardinality(Replied(ep, c.call)) = 1 /\ c.call \notin pending[ep]

C5_Witness ==
  /\ style = "RunOneTask"
  /\ \E c \in CallsOn(AP) : Replied(AP, c.call) # {} /\ c.val = 1024
  /\ pc = "one_return" /\ cur = SP

\* C6: every handler and reply callback is run by a closure of the runner its
\* endpoint is bound to (never inside the call, never by a closure of the
\* peer's runner); on the master pair the handler is entered by the one
\* closure the binding's runner runs, the callback by the one closure the
\* pointer's runner runs after it.
C6_ExecutorAffinity ==
  /\ \A ep \in Endpoints : \A i \in Of(ep, "request") \cup Of(ep, "reply") :
       LET ev == events[ep][i]
       IN /\ ev.on = BoundTo[ep]
          /\ ev.path # <<>>
          /\ ev.path[Len(ev.path)] = BoundTo[ep]
  /\ \A i \in Of(MB, "request") : events[MB][i].path = <<CB>>
  /\ \A i \in Of(MP, "reply") : events[MP][i].path = <<CP>>
  /\ \A c \in CallsOn(MP) :
       /\ (NoClose /\ ~InFlight("request", c.call)) => Cardinality(Handled(MB, c.call)) = 1
       /\ Replied(MP, c.call) # {} => Handled(MB, c.call) # {}

C6_Witness ==
  /\ style = "Run"
  /\ \E c \in CallsOn(MP) : Replied(MP, c.call) # {}
  /\ pc = "run_return" /\ cur = CP

Quiescent == phase = "test" /\ pc = "idle" /\ Messages = {}

\* C7: once a master endpoint has been closed on its side, no error handler
\* runs twice, each runs in a closure of its own runner, no handler or reply
\* callback of an endpoint runs after its error handler, and when every
\* closure has been run the peer master's error handler and both associated
\* endpoints' error handlers have run exactly once.
C7_SymmetricTeardown ==
  /\ \A ep \in Endpoints :
       /\ Cardinality(Of(ep, "error")) <= 1
       /\ \A i \in Of(ep, "error") : events[ep][i].on = BoundTo[ep]
       /\ \A i \in Of(ep, "error") : \A j \in Of(ep, "request") \cup Of(ep, "reply") : j < i
  /\ \A m \in Masters :
       (Of(m, "close") # {} /\ Quiescent) =>
         \A ep \in {IF m = MP THEN MB ELSE MP, AP, AB} : Cardinality(Of(ep, "error")) = 1

C7_Witness ==
  /\ Quiescent
  /\ Of(MP, "close") # {}
  /\ Of(AP, "call") # {}
  /\ \A ep \in {MB, AP, AB} : Cardinality(Of(ep, "error")) = 1

C9_PeerCloseReported ==
  \A m \in Masters :
    LET other == IF m = MP THEN MB ELSE MP
    IN /\ Cardinality(Of(other, "error")) <= 1
       /\ \A i \in Of(other, "error") :
            /\ events[other][i].path = <<BoundTo[other]>>
            /\ events[other][i].on = BoundTo[other]
       /\ (Of(m, "close") # {} /\ ~ErrorInFlight(other)) => Cardinality(Of(other, "error")) = 1

C9_Witness ==
  /\ Of(MB, "close") # {}
  /\ Of(MP, "close") = {}
  /\ Cardinality(Of(MP, "error")) = 1
  /\ style = "Run" /\ pc = "run_return" /\ cur = CP

NewKinds(ep) == {events'[ep][i].kind : i \in (Len(events[ep]) + 1)..Len(events'[ep])}

ClosedDropsReplies ==
  \A ep \in Ptrs :
    /\ state[ep] # "Open" => "reply" \notin NewKinds(ep)
    /\ "close" \in NewKinds(ep) => pending'[ep] = {} /\ "reply" \notin NewKinds(ep)

NoCallbackAfterClose ==
  \A ep \in Ptrs :
    /\ state[ep] # "Open" => pending[ep] = {}
    /\ \A i \in Of(ep, "close") : \A j \in Of(ep, "reply") : j < i

\* C15: closing an endpoint empties its pending calls in the same step and
\* runs none of their callbacks; no reply callback of an endpoint runs once
\* it is not Open, so a reply whose closure was queued before the close is
\* dropped when that closure runs.
C15_NoCallbackAfterClose == []NoCallbackAfterClose /\ [][ClosedDropsReplies]_vars

C15_Witness ==
  \E ep \in Ptrs : \E c \in CallsOn(ep) :
    /\ Of(ep, "close") # {}
    /\ Handled(IF ep = AP THEN AB ELSE MB, c.call) # {}
    /\ ~InFlight("reply", c.call)
    /\ Replied(ep, c.call) = {}
    /\ pc \in {"one_return", "run_wait"}

RecloseChangesNothing ==
  \A ep \in Endpoints :
    "reclose" \in NewKinds(ep) =>
      /\ state' = state /\ pending' = pending /\ tasks' = tasks /\ outbox' = outbox
      /\ events' = [events EXCEPT ![ep] = Append(@, events'[ep][Len(events'[ep])])]

ErrorOnceDespiteReclose ==
  \A ep \in Endpoints :
    /\ Cardinality(Of(ep, "error")) <= 1
    /\ (Of(ep, "reclose") # {} /\ Quiescent) =>
         /\ state[ep] = "Closed"
         /\ Cardinality(Of(ep, "error")) = 1
         /\ ep = MP => Cardinality(Of(AP, "error")) = 1
         /\ ep = MB => Cardinality(Of(AB, "error")) = 1

\* C16: a Close() on an endpoint that is not Open changes no endpoint state,
\* no pending call and posts no closure; the error handler of that endpoint
\* and of its associated endpoints has still run exactly once when every
\* closure has been run.
C16_CloseIdempotent == []ErrorOnceDespiteReclose /\ [][RecloseChangesNothing]_vars

C16_Witness ==
  /\ Quiescent
  /\ Of(MP, "close") # {} /\ Of(MP, "reclose") # {}
  /\ Cardinality(Of(MP, "error")) = 1
  /\ Cardinality(Of(AP, "error")) = 1

CallOnClosedDoesNothing ==
  /\ fatal' # fatal =>
       /\ tasks' = tasks /\ outbox' = outbox /\ pending' = pending
       /\ events' = events /\ state' = state
  /\ \A ep \in Ptrs : "call" \in NewKinds(ep) => state[ep] = "Open" /\ fatal' = "none"

CallOnClosedIsFatal ==
  fatal # "none" => /\ fatal = "Call on a closed Endpoint"
                    /\ \E ep \in Ptrs : state[ep] \in {"Closing", "Closed"}

\* C17: a call on a pointer that is Closing or Closed ends the process: it
\* posts no closure, stores no pending call, runs no handler; calls are
\* sent only on Open pointers.
C17_CallAfterCloseFatal == []CallOnClosedIsFatal /\ [][CallOnClosedDoesNothing]_vars

C17_Witness ==
  /\ fatal = "Call on a closed Endpoint"
  /\ Of(AP, "close") # {}
  /\ tasks[SP] # <<>>

SameStream(t, u) == t.msg = u.msg /\ t.dest = u.dest /\ t.msg \in {"request", "reply"}

\* C18: the closures that carry two requests (or two replies) for the same
\* endpoint stand in every queue in the order of their calls, and the
\* handler and the reply callbacks of an endpoint run in the order of the
\* calls.
C18_PerEndpointOrder ==
  /\ \A e \in Executors : \A i, j \in 1..Len(tasks[e]) :
       (i < j /\ SameStream(tasks[e][i], tasks[e][j])) => tasks[e][i].call < tasks[e][j].call
  /\ \A ep \in Endpoints : \A kind \in {"request", "reply"} : \A i, j \in Of(ep, kind) :
       i < j => events[ep][i].call < events[ep][j].call

C18_Witness ==
  /\ Cardinality(Of(AP, "call")) = 2
  /\ Cardinality(Of(AB, "request")) = 2

\* Calls on different endpoints of one master: the later call on the master
\* pointer is handled while the earlier call on the associated pointer is not.
C18_Overtaking ==
  \E c1 \in CallsOn(AP) : \E c2 \in CallsOn(MP) :
    c1.call < c2.call /\ Handled(MB, c2.call) # {} /\ Handled(AB, c1.call) = {}

Rank(st) == CASE st = "Unbound" -> 0 [] st = "Open" -> 1 [] st = "Closing" -> 2 [] st = "Closed" -> 3

ErrorQueuedAt(ep, e) ==
  \/ \E i \in 1..Len(tasks[e]) :
       tasks[e][i].kind = "deliver" /\ tasks[e][i].msg = "error" /\ tasks[e][i].dest = ep
  \/ \E i \in 1..Len(outbox[Main]) :
       LET o == outbox[Main][i]
       IN o.e = e /\ o.t.kind = "deliver" /\ o.t.msg = "error" /\ o.t.dest = ep

NeverBack ==
  \A ep \in Endpoints :
    /\ Rank(state'[ep]) >= Rank(state[ep])
    /\ state[ep] \in {"Closing", "Closed"} => NewKinds(ep) \cap {"request", "reply"} = {}
    /\ (state[ep] # "Closed" /\ state'[ep] = "Closed") => "error" \in NewKinds(ep)

ClosingHasErrorTask ==
  \A ep \in Endpoints :
    /\ state[ep] = "Closing" => ErrorQueuedAt(ep, BoundTo[ep]) /\ Of(ep, "error") = {}
    /\ state[ep] = "Closed" => Cardinality(Of(ep, "error")) = 1

\* C19: an endpoint never goes back (Open, Closing, Closed); while Closing
\* its error closure is queued on its own runner, and it becomes Closed in
\* the step that runs its error handler; once Closing or Closed its handler
\* and reply callbacks are not run.
C19_LifeCycle == []ClosingHasErrorTask /\ [][NeverBack]_vars

C19_Witness ==
  \E ep \in Ptrs :
    /\ state[ep] = "Closed"
    /\ Of(ep, "close") # {}
    /\ Of(ep, "reply") # {}

\* C20: once a master endpoint has been closed on its side, the error
\* closure of the associated endpoint of that side is queued on (or being
\* posted to) the associated endpoint's own runner, or has run there: no
\* closure of another runner has to run first.
C20_SameSideAssociated ==
  /\ Of(MP, "close") # {} => ErrorQueuedAt(AP, SP) \/ Of(AP, "error") # {}
  /\ Of(MB, "close") # {} => ErrorQueuedAt(AB, SB) \/ Of(AB, "error") # {}

C20_Witness ==
  /\ style = "Run" /\ pc = "run_return" /\ cur = SP
  /\ Of(MP, "close") # {}
  /\ Of(AP, "error") # {}
  /\ \A ep \in {MP, MB, AB} : Of(ep, "error") = {}
  /\ tasks[CB] # <<>> /\ tasks[CP] # <<>>

====
